---- MODULE Spec2Model ----
(***************************************************************************)
(* Model of creme/utils/estimator_checks.py: the harness check_estimator,  *)
(* the generators yield_checks and yield_datasets, guess_model, and the    *)
(* check functions.  The estimator under test is the environment: each of  *)
(* its method calls answers with a nondeterministic choice from a small    *)
(* set of behaviours.                                                      *)
(***************************************************************************)
EXTENDS Integers, Sequences, FiniteSets, TLC

\* Number of samples (x, y) every built-in dataset holds in the model.
NSamples == 2
\* Largest number of Pipeline / Wrapper layers around the estimator.
MaxWrap == 1

Kinds == {"Classifier", "MultiClassifier", "Regressor", "MultiOutputRegressor"}

Wraps == {"Pipeline", "Wrapper"}

RECURSIVE WrapSeqs(_)
WrapSeqs(n) ==
    IF n = 0 THEN {<<>>}
    ELSE WrapSeqs(n - 1) \cup
         {<<l>> \o s : l \in [wrap : Wraps, debug : BOOLEAN],
                       s \in {t \in WrapSeqs(n - 1) : Len(t) = n - 1}}

\* The model instances given to the harness: some wrapper layers (each with
\* or without a debug_one method) around a
\* final estimator, the base classes of that estimator, and what repr(),
\* str() and _get_tags() give.
Models ==
    { [layers |-> w \o <<[wrap |-> "Estimator", debug |-> d]>>,
       kinds |-> k, reprStr |-> r, strStr |-> s, tagsDict |-> t] :
        w \in WrapSeqs(MaxWrap), d \in BOOLEAN, k \in SUBSET Kinds,
        r \in BOOLEAN, s \in BOOLEAN, t \in BOOLEAN }

\* guess_model: strip Pipeline (final_estimator) and Wrapper (_model) layers.
RECURSIVE guess_model(_)
guess_model(m) ==
    IF Head(m.layers).wrap = "Pipeline"
    THEN guess_model([m EXCEPT !.layers = Tail(m.layers)])
    ELSE IF Head(m.layers).wrap = "Wrapper"
    THEN guess_model([m EXCEPT !.layers = Tail(m.layers)])
    ELSE m

\* isinstance(model, base.<kind>) for an unwrapped estimator.
IsInstance(m, kind) == Head(m.layers).wrap = "Estimator" /\ kind \in m.kinds

\* hasattr(model, 'debug_one')
HasDebugOne(m) == Head(m.layers).debug

Cond(b, s) == IF b THEN s ELSE <<>>

\* yield_datasets without its Regressor branch (lines 39-40 lost).
yield_datasets_noRegressor(m) ==
    LET g == guess_model(m) IN
       Cond(IsInstance(g, "Classifier"), <<"Phishing">>)
    \o Cond(IsInstance(g, "MultiClassifier"), <<"iris">>)
    \o Cond(IsInstance(g, "MultiOutputRegressor"), <<"linnerud">>)
    \o Cond(IsInstance(g, "MultiOutputRegressor"), <<"linnerud">>)

\* yield_datasets: the names of the dataset objects it yields, in order.
yield_datasets(m) ==
    LET g == guess_model(m) IN
       Cond(IsInstance(g, "Classifier"), <<"Phishing">>)
    \o Cond(IsInstance(g, "MultiClassifier"), <<"iris">>)
    \o Cond(IsInstance(g, "Regressor"), <<"TrumpApproval">>)
    \o Cond(IsInstance(g, "MultiOutputRegressor"), <<"linnerud">>)
    \o Cond(IsInstance(g, "MultiOutputRegressor"), <<"linnerud">>)

\* stream.iter_sklearn_dataset returns a generator: iter() of it is itself,
\* and it yields each sample once.  The datasets.* objects start a new pass
\* on every iter().
SinglePass(name) == name \in {"iris", "linnerud"}

\* with_dataset(method): functools.partial(check_fit_one, dataset=dataset)
\* whatever the method, then update_wrapper copies the method's __name__.
with_dataset(method) == [name |-> method, func |-> "check_fit_one"]

VARIABLES
    entry,      \* the function called: check_estimator or one check function
    model,      \* the model instance passed in
    gpc,        \* position of the yield_checks generator (source line)
    gmodel,     \* yield_checks' local variable `model` (rebound on line 150)
    di,         \* number of datasets taken from yield_datasets so far
    dataset,    \* the current dataset object: [name, cursor]
    ran,        \* checks called so far: [name, func, ds, n, res]
    status,     \* "running", "passed" or "failed" (an exception escaped)
    pc,         \* position inside the running check function
    i,          \* samples the running check's for loop has taken
    log         \* calls the running (or last) check made on the estimator

vars == <<entry, model, gpc, gmodel, di, dataset, ran, status, pc, i, log>>


-----------------------------------------------------------------------------
(* The estimator under test, as the check functions see it.                 *)

\* 1. of line 76, in tenths: probabilities are multiples of 0.1 in the model.
ProbaOne == 10

\* What predict_proba_one may return: p maps each entry to its value in
\* tenths; isDict is FALSE for a container that is no dict (the list
\* [True, False]).
Predictions ==
    { [isDict |-> TRUE,  p |-> ("True" :> 5 @@ "False" :> 5)],
      [isDict |-> TRUE,  p |-> ("True" :> 15 @@ "False" :> -5)],
      [isDict |-> TRUE,  p |-> ("True" :> 5 @@ "False" :> 10)],
      [isDict |-> TRUE,  p |-> ("True" :> 10)],
      [isDict |-> TRUE,  p |-> [k \in {} |-> 0]],
      [isDict |-> TRUE,  p |-> ("True" :> 5 @@ "c" :> 5)],
      [isDict |-> TRUE,  p |-> ("True" :> 5 @@ "False" :> 5 @@ "c" :> 0)],
      [isDict |-> FALSE, p |-> ("True" :> 0 @@ "False" :> 0)] }

NoPred == [isDict |-> FALSE, p |-> [k \in {} |-> 0]]

\* What fit_one may do: return self, another instance of the class, or an
\* object of another class; and change x or y in place.  (The predict and
\* debug methods are taken not to change x.)
FitResponses == [ret : {"self", "new", "alien"}, xmut : BOOLEAN, ymut : BOOLEAN]

RECURSIVE SumOver(_, _)
SumOver(p, keys) ==
    IF keys = {} THEN 0
    ELSE LET k == CHOOSE k \in keys : TRUE IN p[k] + SumOver(p, keys \ {k})

\* Lines 75-78: the probabilities are coherent.
Coherent(y) ==
    /\ y.isDict
    /\ SumOver(y.p, DOMAIN y.p) = ProbaOne
    /\ \A k \in DOMAIN y.p : 0 <= y.p[k] /\ y.p[k] <= ProbaOne

\* Lines 90-92 without the last assertion.
BinaryShape_noFalse(y) ==
    /\ Cardinality(DOMAIN y.p) = 2
    /\ "True" \in DOMAIN y.p

\* Lines 90-92.
BinaryShape(y) ==
    /\ Cardinality(DOMAIN y.p) = 2
    /\ "True" \in DOMAIN y.p
    /\ "False" \in DOMAIN y.p

-----------------------------------------------------------------------------
(* Helpers on the state.                                                    *)

Last(s) == s[Len(s)]

\* A check function is executing.
Running == ran # <<>> /\ Last(ran).res = "running"

\* The function that is executing.
Func == Last(ran).func

FitCalls == {k \in 1..Len(log) : log[k].call = "fit_one"}

\* The object the check's local variable (model / classifier) is bound to,
\* for the checks that rebind it to what fit_one returned.  Object 0 is the
\* object the check was called with.
Rebound ==
    IF FitCalls = {} THEN [obj |-> 0, inst |-> TRUE]
    ELSE LET k == CHOOSE k \in FitCalls : \A j \in FitCalls : j <= k
         IN [obj |-> log[k].ret, inst |-> log[k].inst]

\* The entry a call of fit_one on receiver recv leaves in the log.
FitEntry(recv, r) ==
    [call |-> "fit_one", recv |-> recv,
     ret |-> IF r.ret = "self" THEN recv ELSE Len(log) + 1,
     inst |-> r.ret # "alien", xmut |-> r.xmut, ymut |-> r.ymut,
     pred |-> NoPred]

CallEntry(call, recv, y) ==
    [call |-> call, recv |-> recv, ret |-> recv, inst |-> TRUE,
     xmut |-> FALSE, ymut |-> FALSE, pred |-> y]

\* `for x, y in dataset`: the position the next sample is read from.  A
\* single-pass iterator keeps its position across the checks that share it.
Pos == IF SinglePass(dataset.name) THEN dataset.cursor ELSE i

HasNext == Pos < NSamples

\* next() of the for loop: one more sample taken.
TakeSample ==
    /\ i' = i + 1
    /\ dataset' = IF SinglePass(dataset.name)
                  THEN [dataset EXCEPT !.cursor = @ + 1]
                  ELSE dataset

\* The running check returns (res = "pass") or raises (res = "fail").
Finish(res, n) ==
    /\ ran' = [ran EXCEPT ![Len(ran)].res = res, ![Len(ran)].n = n]
    /\ pc' = "idle"
    /\ status' = IF res = "fail" THEN "failed"
                 ELSE IF entry # "check_estimator" THEN "passed"
                 ELSE status

\* check_estimator calls the check it was handed: check(copy.deepcopy(model)).
Call(c) ==
    /\ ran' = Append(ran, [name |-> c.name, func |-> c.func, ds |-> di,
                           n |-> 0, res |-> "running"])
    /\ pc' = IF c.func = "check_pickling" THEN "dumps" ELSE "loop"
    /\ i' = 0
    /\ log' = <<>>

InCheck(f, at) == status = "running" /\ Running /\ Func = f /\ pc = at

-----------------------------------------------------------------------------
(* The check functions.                                                     *)

\* Lines 58-62 without the assertion on y.
FitOneHolds_noY(e) == e.inst /\ ~e.xmut

\* Lines 58-62: the assertions of check_fit_one on one answer of fit_one.
FitOneHolds(e) == e.inst /\ ~e.xmut /\ ~e.ymut

\* check_fit_one, lines 51-62: one iteration of the loop.
FitOneIter ==
    /\ InCheck("check_fit_one", "loop")
    /\ HasNext
    /\ TakeSample
    /\ \E r \in FitResponses :
         LET e == FitEntry(Rebound.obj, r) IN
           /\ log' = Append(log, e)
           /\ IF FitOneHolds(e)
              THEN UNCHANGED <<ran, pc, status>>
              ELSE Finish("fail", i + 1)
    /\ UNCHANGED <<entry, model, gpc, gmodel, di>>

\* check_fit_one, line 51: the dataset is exhausted and the check returns.
FitOneEnd ==
    /\ InCheck("check_fit_one", "loop")
    /\ ~HasNext
    /\ Finish("pass", i)
    /\ UNCHANGED <<entry, model, gpc, gmodel, di, dataset, i, log>>

\* check_predict_proba_one, lines 67-71: next sample, then fit_one.
ProbaFit ==
    /\ InCheck("check_predict_proba_one", "loop")
    /\ HasNext
    /\ TakeSample
    /\ \E r \in FitResponses : log' = Append(log, FitEntry(Rebound.obj, r))
    /\ pc' = "predict"
    /\ UNCHANGED <<entry, model, gpc, gmodel, di, ran, status>>

\* Lines 75-82 on the prediction y and the fit_one answer e of the sample.
ProbaHolds(y, e) == Coherent(y) /\ ~e.xmut /\ ~e.ymut

\* check_predict_proba_one, lines 72-82: predict_proba_one, then the checks.
ProbaPredict ==
    /\ InCheck("check_predict_proba_one", "predict")
    /\ \E y \in Predictions :
         /\ log' = Append(log, CallEntry("predict_proba_one", Rebound.obj, y))
         /\ IF ProbaHolds(y, Last(log))
            THEN pc' = "loop" /\ UNCHANGED <<ran, status>>
            ELSE Finish("fail", i)
    /\ UNCHANGED <<entry, model, gpc, gmodel, di, dataset, i>>

ProbaEnd ==
    /\ InCheck("check_predict_proba_one", "loop")
    /\ ~HasNext
    /\ Finish("pass", i)
    /\ UNCHANGED <<entry, model, gpc, gmodel, di, dataset, i, log>>

\* check_predict_proba_one_binary, lines 87-88: next sample, then predict.
BinaryPredict ==
    /\ InCheck("check_predict_proba_one_binary", "loop")
    /\ HasNext
    /\ TakeSample
    /\ \E y \in Predictions :
         log' = Append(log, CallEntry("predict_proba_one", Rebound.obj, y))
    /\ pc' = "fit"
    /\ UNCHANGED <<entry, model, gpc, gmodel, di, ran, status>>

\* check_predict_proba_one_binary, lines 89-92: fit_one, then the checks on
\* the prediction made before it.
BinaryFit ==
    /\ InCheck("check_predict_proba_one_binary", "fit")
    /\ \E r \in FitResponses : log' = Append(log, FitEntry(Rebound.obj, r))
    /\ IF BinaryShape(Last(log).pred)
       THEN pc' = "loop" /\ UNCHANGED <<ran, status>>
       ELSE Finish("fail", i)
    /\ UNCHANGED <<entry, model, gpc, gmodel, di, dataset, i>>

BinaryEnd ==
    /\ InCheck("check_predict_proba_one_binary", "loop")
    /\ ~HasNext
    /\ Finish("pass", i)
    /\ UNCHANGED <<entry, model, gpc, gmodel, di, dataset, i, log>>

\* check_debug_one, lines 96-100: debug_one, fit_one, debug_one on the first
\* sample, then break; nothing is asserted.
DebugOne ==
    /\ InCheck("check_debug_one", "loop")
    /\ IF HasNext
       THEN /\ TakeSample
            /\ \E r \in FitResponses :
                 log' = log \o <<CallEntry("debug_one", 0, NoPred),
                                 FitEntry(0, r),
                                 CallEntry("debug_one", 0, NoPred)>>
       ELSE UNCHANGED <<dataset, i, log>>
    /\ Finish("pass", IF HasNext THEN i + 1 ELSE i)
    /\ UNCHANGED <<entry, model, gpc, gmodel, di>>

\* check_pickling, line 104: pickle.loads(pickle.dumps(model)) before any
\* sample; sameClass is whether the result is an instance of the class.
PicklingFirst ==
    /\ InCheck("check_pickling", "dumps")
    /\ \E sameClass \in BOOLEAN :
         /\ log' = Append(log, [CallEntry("pickle", 0, NoPred)
                                  EXCEPT !.inst = sameClass])
         /\ IF sameClass
            THEN pc' = "loop" /\ UNCHANGED <<ran, status>>
            ELSE Finish("fail", i)
    /\ UNCHANGED <<entry, model, gpc, gmodel, di, dataset, i>>

\* check_pickling, lines 105-107: predict_one and fit_one on the model the
\* check was called with; what fit_one returns is dropped.
PicklingIter ==
    /\ InCheck("check_pickling", "loop")
    /\ HasNext
    /\ TakeSample
    /\ \E r \in FitResponses :
         log' = log \o <<CallEntry("predict_one", 0, NoPred), FitEntry(0, r)>>
    /\ UNCHANGED <<entry, model, gpc, gmodel, di, ran, status, pc>>

\* check_pickling, line 108: the second round trip, after the loop.
PicklingEnd ==
    /\ InCheck("check_pickling", "loop")
    /\ ~HasNext
    /\ \E sameClass \in BOOLEAN :
         /\ log' = Append(log, [CallEntry("pickle", 0, NoPred)
                                  EXCEPT !.inst = sameClass])
         /\ Finish(IF sameClass THEN "pass" ELSE "fail", i)
    /\ UNCHANGED <<entry, model, gpc, gmodel, di, dataset, i>>

-----------------------------------------------------------------------------
(* check_estimator driving the generator yield_checks: each yielded check   *)
(* is called on a deep copy of the model before the generator resumes.      *)

\* The generator is at the line `at` and no check is executing.
AtLine(at) ==
    /\ entry = "check_estimator"
    /\ status = "running"
    /\ ~Running
    /\ gpc = at

\* Lines 111-121: what each dataset-free check asserts.
check_repr(m) == m.reprStr
\* check_str written with repr() in place of str().
check_str_repr(m) == m.reprStr
check_str(m) == m.strStr
check_get_tags(m) == m.tagsDict

\* A dataset-free check is yielded and called: it passes or raises at once.
CallPlain(name, holds) ==
    /\ ran' = Append(ran, [name |-> name, func |-> name, ds |-> 0, n |-> 0,
                           res |-> IF holds THEN "pass" ELSE "fail"])
    /\ status' = IF holds THEN status ELSE "failed"
    /\ UNCHANGED <<entry, model, gmodel, di, dataset, pc, i, log>>

\* Line 134.
YieldRepr ==
    /\ AtLine("134")
    /\ gpc' = "135"
    /\ CallPlain("check_repr", check_repr(model))

\* Line 135.
YieldStr ==
    /\ AtLine("135")
    /\ gpc' = "136"
    /\ CallPlain("check_str", check_str(model))

\* Line 136.
YieldGetTags ==
    /\ AtLine("136")
    /\ gpc' = "138"
    /\ CallPlain("check_get_tags", check_get_tags(model))

\* Line 138: the for loop asks yield_datasets(model) for its next dataset;
\* when there is none yield_checks ends, and so does check_estimator.
NextDataset ==
    /\ AtLine("138")
    /\ IF di < Len(yield_datasets(model))
       THEN /\ di' = di + 1
            /\ dataset' = [name |-> yield_datasets(model)[di + 1], cursor |-> 0]
            /\ gpc' = "145"
            /\ UNCHANGED status
       ELSE /\ gpc' = "end"
            /\ status' = "passed"
            /\ UNCHANGED <<di, dataset>>
    /\ UNCHANGED <<entry, model, gmodel, ran, pc, i, log>>

\* Line 145.
YieldFitOne ==
    /\ AtLine("145")
    /\ gpc' = "146"
    /\ Call(with_dataset("check_fit_one"))
    /\ UNCHANGED <<entry, model, gmodel, di, dataset, status>>

\* Line 146.
YieldPickling ==
    /\ AtLine("146")
    /\ gpc' = "147"
    /\ Call(with_dataset("check_pickling"))
    /\ UNCHANGED <<entry, model, gmodel, di, dataset, status>>

\* Lines 147-148.
YieldDebugOne ==
    /\ AtLine("147")
    /\ gpc' = "150"
    /\ IF HasDebugOne(gmodel)
       THEN Call(with_dataset("check_debug_one"))
       ELSE UNCHANGED <<ran, pc, i, log>>
    /\ UNCHANGED <<entry, model, gmodel, di, dataset, status>>

\* Lines 150-153: `model` is rebound to the unwrapped estimator.
YieldPredictProbaOne ==
    /\ AtLine("150")
    /\ gpc' = "155"
    /\ gmodel' = guess_model(gmodel)
    /\ IF IsInstance(guess_model(gmodel), "Classifier")
       THEN Call(with_dataset("check_predict_proba_one"))
       ELSE UNCHANGED <<ran, pc, i, log>>
    /\ UNCHANGED <<entry, model, di, dataset, status>>

\* Line 155: the condition under which check_predict_proba_one_binary is
\* yielded.
YieldsBinary(m) == ~IsInstance(m, "MultiClassifier")

\* Lines 155-156.
YieldPredictProbaOneBinary ==
    /\ AtLine("155")
    /\ gpc' = "138"
    /\ IF YieldsBinary(gmodel)
       THEN Call(with_dataset("check_predict_proba_one_binary"))
       ELSE UNCHANGED <<ran, pc, i, log>>
    /\ UNCHANGED <<entry, model, gmodel, di, dataset, status>>

-----------------------------------------------------------------------------

DatasetChecks == {"check_fit_one", "check_pickling", "check_debug_one",
                  "check_predict_proba_one", "check_predict_proba_one_binary"}

\* The estimators used when a check function is called on its own.
PlainModels ==
    {m \in Models : /\ Len(m.layers) = 1
                    /\ m.kinds = {"Classifier"}
                    /\ m.reprStr /\ m.strStr /\ m.tagsDict}

\* check_estimator(model) has just been called.
InitHarness ==
    /\ entry = "check_estimator"
    /\ model \in Models
    /\ gpc = "134"
    /\ gmodel = model
    /\ di = 0
    /\ dataset = [name |-> "none", cursor |-> 0]
    /\ ran = <<>>
    /\ status = "running"
    /\ pc = "idle"
    /\ i = 0
    /\ log = <<>>

\* One check function has just been called with a model and a fresh dataset.
InitCheck ==
    /\ entry \in DatasetChecks
    /\ model \in PlainModels
    /\ gpc = "none"
    /\ gmodel = model
    /\ di = 1
    /\ dataset \in [name : {"Phishing", "iris"}, cursor : {0}]
    /\ ran = <<[name |-> entry, func |-> entry, ds |-> 1, n |-> 0,
                res |-> "running"]>>
    /\ status = "running"
    /\ pc = IF entry = "check_pickling" THEN "dumps" ELSE "loop"
    /\ i = 0
    /\ log = <<>>

Init == InitHarness \/ InitCheck

Next ==
    \/ YieldRepr
    \/ YieldStr
    \/ YieldGetTags
    \/ NextDataset
    \/ YieldFitOne
    \/ YieldPickling
    \/ YieldDebugOne
    \/ YieldPredictProbaOne
    \/ YieldPredictProbaOneBinary
    \/ FitOneIter
    \/ FitOneEnd
    \/ ProbaFit
    \/ ProbaPredict
    \/ ProbaEnd
    \/ BinaryPredict
    \/ BinaryFit
    \/ BinaryEnd
    \/ DebugOne
    \/ PicklingFirst
    \/ PicklingIter
    \/ PicklingEnd

Spec == Init /\ [][Next]_vars

-----------------------------------------------------------------------------
(* Properties.                                                              *)

Harness == entry = "check_estimator"

Unwrapped == guess_model(model)

\* The calls of the log at the given positions.
Odd(k) == k % 2 = 1

\* fit_one answered with an instance of the class and left x and y alone.
Pure(e) == e.inst /\ ~e.xmut /\ ~e.ymut

\* C1: when check_estimator passes for a model whose unwrapped estimator is
\* a Classifier, the function check_predict_proba_one has been executed on
\* each of the model's datasets.
C1_ProbaCheckExecuted ==
    (Harness /\ status = "passed" /\ IsInstance(Unwrapped, "Classifier"))
    => \A d \in 1..Len(yield_datasets(model)) :
         \E k \in 1..Len(ran) :
            ran[k].ds = d /\ ran[k].func = "check_predict_proba_one"

\* C2: when check_estimator passes for a model that has datasets, the
\* function check_pickling has been executed on each of them.
C2_PicklingExecuted ==
    (Harness /\ status = "passed")
    => \A d \in 1..Len(yield_datasets(model)) :
         \E k \in 1..Len(ran) :
            ran[k].ds = d /\ ran[k].func = "check_pickling"

\* C3 as stated: every model gets at least one dataset, hence a
\* check_fit_one beside the three dataset-free checks.
C3_AlwaysADataset ==
    (Harness /\ status = "passed")
    => /\ di >= 1
       /\ \E k \in 1..Len(ran) : ran[k].name = "check_fit_one"

\* C3 amended: a model whose unwrapped estimator is a Classifier,
\* MultiClassifier, Regressor or MultiOutputRegressor gets at least one
\* dataset and a check_fit_one after the three dataset-free checks; a model
\* of none of these types gets no dataset and the three checks only.
C3_DatasetIffKnownKind ==
    (Harness /\ status = "passed")
    => IF Unwrapped.kinds # {}
       THEN /\ di >= 1
            /\ \E k \in 4..Len(ran) : ran[k].name = "check_fit_one"
       ELSE di = 0 /\ Len(ran) = 3

C3_Witness ==
    /\ Harness
    /\ status = "passed"
    /\ Unwrapped.kinds = {"Regressor"}
    /\ Len(model.layers) > 1
    /\ \E k \in 4..Len(ran) : ran[k].name = "check_fit_one" /\ ran[k].n = NSamples

C5_PlainChecksFirst ==
    Harness =>
    /\ Len(ran) >= 1 =>
          /\ ran[1] = [name |-> "check_repr", func |-> "check_repr", ds |-> 0,
                       n |-> 0, res |-> ran[1].res]
          /\ ran[1].res = IF model.reprStr THEN "pass" ELSE "fail"
    /\ Len(ran) >= 2 =>
          /\ ran[2] = [name |-> "check_str", func |-> "check_str", ds |-> 0,
                       n |-> 0, res |-> ran[2].res]
          /\ ran[2].res = IF model.strStr THEN "pass" ELSE "fail"
    /\ Len(ran) >= 3 =>
          /\ ran[3] = [name |-> "check_get_tags", func |-> "check_get_tags",
                       ds |-> 0, n |-> 0, res |-> ran[3].res]
          /\ ran[3].res = IF model.tagsDict THEN "pass" ELSE "fail"
    /\ \A k \in 4..Len(ran) :
          ran[k].name \notin {"check_repr", "check_str", "check_get_tags"}
    /\ Len(ran) < 3 => di = 0
    /\ status = "passed" => Len(ran) >= 3

C5_Witness ==
    /\ Harness
    /\ status = "passed"
    /\ yield_datasets(model) = <<>>
    /\ Len(ran) = 3

\* C6: check_predict_proba_one_binary is yielded only for an unwrapped model
\* that is a Classifier and not a MultiClassifier.
C6_BinaryOnlyForBinaryClassifiers ==
    Harness =>
    \A k \in 1..Len(ran) :
       ran[k].name = "check_predict_proba_one_binary"
       => /\ IsInstance(Unwrapped, "Classifier")
          /\ ~IsInstance(Unwrapped, "MultiClassifier")

\* C7: check_predict_proba_one_binary calls predict_proba_one before fit_one
\* on every sample, so its first call is a prediction by the classifier it
\* was given, fit on nothing; it goes on, and passes, only if every
\* prediction has exactly the two entries True and False.
\* check_predict_proba_one calls fit_one first on every sample.
C7_BinaryPredictsBeforeFit ==
    ran # <<>> =>
    LET c == Last(ran) IN
    /\ c.func = "check_predict_proba_one_binary" =>
          /\ \A k \in 1..Len(log) :
                log[k].call = IF Odd(k) THEN "predict_proba_one" ELSE "fit_one"
          /\ \A k \in 1..Len(log) :
                log[k].recv = IF k <= 2 THEN 0
                              ELSE IF Odd(k) THEN log[k - 1].ret
                              ELSE log[k - 2].ret
          /\ \A k \in 1..Len(log) :
                (Odd(k) /\ (k + 1 < Len(log) \/ c.res = "pass"))
                => DOMAIN log[k].pred.p = {"True", "False"}
          /\ c.res = "pass" => Len(log) = 2 * c.n
    /\ c.func = "check_predict_proba_one" =>
          \A k \in 1..Len(log) :
             log[k].call = IF Odd(k) THEN "fit_one" ELSE "predict_proba_one"

C7_Witness ==
    /\ ran # <<>>
    /\ Last(ran).func = "check_predict_proba_one_binary"
    /\ Last(ran).res = "pass"
    /\ Len(log) = 2 * NSamples
    /\ log[1].call = "predict_proba_one"

\* C8: every dataset-bound check that check_estimator has run to the end
\* has iterated over all the samples of its dataset.
C8_EveryCheckSeesAllSamples ==
    Harness =>
    \A k \in 1..Len(ran) :
       (ran[k].ds > 0 /\ ran[k].res = "pass") => ran[k].n = NSamples

====
